---------------------------- MODULE Spec2Model ----------------------------
(***************************************************************************)
(* One invocation of 02-nanopro.py: main() parses the command line,        *)
(* constructs NanoBananoPro (which loads the project file), optionally     *)
(* creates the output directory, and dispatches to generate or edit_image. *)
(* The Vertex AI model, the filesystem and the wall clock are external:    *)
(* each of their outcomes is a nondeterministic choice.                    *)
(*                                                                         *)
(* A file name is a sequence of fragments: the fragment "." is the dot     *)
(* character, every other fragment is a non-empty dot-free string.  The    *)
(* names drawn for --output are plain file names (no directory separator,  *)
(* not "." or "..", no trailing dot).                                      *)
(***************************************************************************)
EXTENDS Integers, Sequences, FiniteSets, TLC

VARIABLES
    args,          \* the parsed command line (argparse namespace)
    home,          \* the files under Path.home(): key file and project file
    imageExists,   \* whether the IMAGE of --edit exists on disk (FALSE without --edit)
    pc,            \* position of the process in main()
    output_dir,    \* nano.output_dir
    dirs,          \* directories created by this run (mkdir)
    images,        \* number of images the API returned, -1 before the call
    i,             \* index of the for loop of generate
    saved_paths,   \* saved_paths of generate
    output_path,   \* output_path of edit_image
    files,         \* paths written by a successful image.save of this run
    apiCalls,      \* calls of model.generate_images / model.edit_image
    saveCalls,     \* calls of image.save
    out,           \* the kinds of message printed so far
    exitCode,      \* process exit code, -1 while running
    clock,         \* the second shown by the last datetime.now()
    ret,           \* the value the selected operation returned
    op             \* the operation main selected

vars == <<args, home, imageExists, pc, output_dir, dirs, images, i, saved_paths,
          output_path, files, apiCalls, saveCalls, out, exitCode, clock, ret, op>>

-----------------------------------------------------------------------------
(* Bounds and program constants *)

MaxClock == 2

MaxImages == 8

-----------------------------------------------------------------------------
(* Values *)

Dot == "."

JpgSuffix == <<Dot, "jpg">>

PngSuffix == <<Dot, "png">>

Whitespace == {" ", "\n"}

NoPath == [dir |-> "", name |-> <<>>]

NoReturn == [some |-> FALSE, paths |-> <<>>]

OptNone(empty) == [some |-> FALSE, val |-> empty]

OptSome(v) == [some |-> TRUE, val |-> v]

\* Python truthiness of an optional string: None and "" are false
Truthy(o, empty) == o.some /\ o.val # empty

FileNames == { <<"out">>, <<"out", Dot, "png">>, <<Dot, "out">> }

OutputArgs == {OptNone(<<>>), OptSome(<<>>)} \cup {OptSome(f) : f \in FileNames}

PromptArgs == {OptNone(""), OptSome(""), OptSome("a cat")}

EditArgs == {[some |-> FALSE, image |-> "", prompt |-> ""],
             [some |-> TRUE, image |-> "photo.png", prompt |-> "Add a crown"]}

OutputDirArgs == {OptNone(""), OptSome(""), OptSome("images")}

ProjectContents == { <<>>, <<" ", "\n">>, <<" ", "p", "\n">> }

KeyStates == {"missing", "empty", "present"}

-----------------------------------------------------------------------------
(* Pure functions *)

RECURSIVE LStrip(_)
LStrip(s) == IF s # <<>> /\ Head(s) \in Whitespace THEN LStrip(Tail(s)) ELSE s

RECURSIVE RStrip(_)
RStrip(s) ==
    IF s # <<>> /\ s[Len(s)] \in Whitespace THEN RStrip(SubSeq(s, 1, Len(s) - 1)) ELSE s

NoStrip(s) == s

\* str.strip()
Strip(s) == RStrip(LStrip(s))

\* str.rfind('.'), 1-based, 0 when absent
RFindDot(name) ==
    IF \E j \in 1..Len(name) : name[j] = Dot
    THEN CHOOSE j \in 1..Len(name) :
            name[j] = Dot /\ \A k \in (j+1)..Len(name) : name[k] # Dot
    ELSE 0

\* PurePath.suffix: the last dot and what follows it, unless the dot is the
\* first or the last character of the name
Suffix(name) ==
    LET j == RFindDot(name)
    IN  IF 1 < j /\ j < Len(name) THEN SubSeq(name, j, Len(name)) ELSE <<>>

WithSuffixKeepsName(name, suffix) == name

\* PurePath.with_suffix
WithSuffix(name, suffix) ==
    IF Suffix(name) = <<>> THEN name \o suffix
    ELSE SubSeq(name, 1, Len(name) - Len(Suffix(name))) \o suffix

\* self.output_dir / name
Join(dir, name) == [dir |-> dir, name |-> name]

\* datetime.now().strftime("%Y%m%d_%H%M%S")
Timestamp(t) == ToString(t)

GenTimestampNameNoIndex(t, idx, n) == <<"nano_", Timestamp(t)>> \o JpgSuffix

\* f"nano_{timestamp}{suffix}.jpg"
GenTimestampName(t, idx, n) ==
    <<"nano_", Timestamp(t)>>
        \o (IF n > 1 THEN <<"_", ToString(idx + 1)>> ELSE <<>>)
        \o JpgSuffix

\* f"nano_edited_{timestamp}.png"
EditTimestampName(t) == <<"nano_edited_", Timestamp(t)>> \o PngSuffix

GenOutputPathAnyCount(dir, output, n, idx, t) ==
    IF Truthy(output, <<>>)
    THEN IF Suffix(output.val) = <<>>
         THEN Join(dir, WithSuffix(output.val, JpgSuffix))
         ELSE Join(dir, output.val)
    ELSE Join(dir, GenTimestampName(t, idx, n))

\* the output_path of one iteration of the loop of generate
GenOutputPath(dir, output, n, idx, t) ==
    IF Truthy(output, <<>>) /\ n = 1
    THEN IF Suffix(output.val) = <<>>
         THEN Join(dir, WithSuffix(output.val, JpgSuffix))
         ELSE Join(dir, output.val)
    ELSE Join(dir, GenTimestampName(t, idx, n))

\* the output_path of edit_image
EditOutputPath(dir, output, t) ==
    IF Truthy(output, <<>>)
    THEN IF Suffix(output.val) = <<>>
         THEN Join(dir, WithSuffix(output.val, PngSuffix))
         ELSE Join(dir, output.val)
    ELSE Join(dir, EditTimestampName(t))

-----------------------------------------------------------------------------
(* Initial state: a fresh process, any command line, any environment *)

Init ==
    /\ args \in [prompt : PromptArgs, edit : EditArgs, output : OutputArgs,
                 num_images : 1..MaxImages, output_dir : OutputDirArgs]
    /\ home \in [key : KeyStates, projectExists : BOOLEAN, project : ProjectContents]
    /\ imageExists \in (IF args.edit.some THEN BOOLEAN ELSE {FALSE})
    /\ pc = "init"
    /\ output_dir = "cwd"
    /\ dirs = {}
    /\ images = -1
    /\ i = 0
    /\ saved_paths = <<>>
    /\ output_path = NoPath
    /\ files = {}
    /\ apiCalls = 0
    /\ saveCalls = 0
    /\ out = {}
    /\ exitCode = -1
    /\ clock = 0
    /\ ret = NoReturn
    /\ op = "none"

\* sys.exit(code) after printing msgs
Exit(code, msgs) ==
    /\ pc' = "done"
    /\ exitCode' = code
    /\ out' = out \cup msgs

-----------------------------------------------------------------------------
(* main: nano = NanoBananoPro(), i.e. __init__ and _load_config *)

LoadConfig ==
    /\ pc = "init"
    /\ IF ~home.projectExists
       THEN Exit(1, {"NoProject"})
       ELSE IF Strip(home.project) = <<>>
            THEN Exit(1, {"ProjectEmpty"})
            ELSE \* vertexai.init and from_pretrained return, or raise uncaught
                 \/ /\ pc' = "mkdir"
                    /\ UNCHANGED <<exitCode, out>>
                 \/ Exit(1, {"Traceback"})
    /\ UNCHANGED <<args, home, imageExists, output_dir, dirs, images, i, saved_paths,
                   output_path, files, apiCalls, saveCalls, clock, ret, op>>

(* main: if args.output_dir: mkdir and set nano.output_dir *)
SetOutputDir ==
    /\ pc = "mkdir"
    /\ IF Truthy(args.output_dir, "")
       THEN \/ /\ dirs' = dirs \cup {args.output_dir.val}
               /\ output_dir' = args.output_dir.val
               /\ pc' = "dispatch"
               /\ UNCHANGED <<exitCode, out>>
            \/ \* mkdir raises, uncaught
               /\ Exit(1, {"Traceback"})
               /\ UNCHANGED <<dirs, output_dir>>
       ELSE /\ pc' = "dispatch"
            /\ UNCHANGED <<dirs, output_dir, exitCode, out>>
    /\ UNCHANGED <<args, home, imageExists, images, i, saved_paths, output_path,
                   files, apiCalls, saveCalls, clock, ret, op>>

DispatchEditFirst ==
    /\ pc = "dispatch"
    /\ IF args.edit.some
       THEN /\ pc' = "edit"
            /\ op' = "edit"
            /\ UNCHANGED <<exitCode, out>>
       ELSE IF Truthy(args.prompt, "")
            THEN /\ pc' = "generate"
                 /\ op' = "generate"
                 /\ UNCHANGED <<exitCode, out>>
            ELSE /\ Exit(1, {"Help"})
                 /\ UNCHANGED op
    /\ UNCHANGED <<args, home, imageExists, output_dir, dirs, images, i, saved_paths,
                   output_path, files, apiCalls, saveCalls, clock, ret>>

(* main: if args.prompt / elif args.edit / else print_help, exit 1 *)
Dispatch ==
    /\ pc = "dispatch"
    /\ IF Truthy(args.prompt, "")
       THEN /\ pc' = "generate"
            /\ op' = "generate"
            /\ UNCHANGED <<exitCode, out>>
       ELSE IF args.edit.some
            THEN /\ pc' = "edit"
                 /\ op' = "edit"
                 /\ UNCHANGED <<exitCode, out>>
            ELSE /\ Exit(1, {"Help"})
                 /\ UNCHANGED op
    /\ UNCHANGED <<args, home, imageExists, output_dir, dirs, images, i, saved_paths,
                   output_path, files, apiCalls, saveCalls, clock, ret>>

-----------------------------------------------------------------------------
(* generate *)

GenerateImagesRetry ==
    /\ pc = "generate"
    /\ apiCalls' = apiCalls + 1
    /\ \/ /\ apiCalls < 1
          /\ UNCHANGED <<pc, exitCode, out, images>>
       \/ /\ Exit(1, {"ErrorGenerating"})
          /\ UNCHANGED images
       \/ /\ \E k \in 0..args.num_images : images' = k
          /\ pc' = "save"
          /\ UNCHANGED <<exitCode, out>>
    /\ UNCHANGED <<args, home, imageExists, output_dir, dirs, i, saved_paths,
                   output_path, files, saveCalls, clock, ret, op>>

(* images = the call of self.model.generate_images: raises, or returns
   between zero and num_images images *)
GenerateImages ==
    /\ pc = "generate"
    /\ apiCalls' = apiCalls + 1
    /\ \/ /\ Exit(1, {"ErrorGenerating"})
          /\ UNCHANGED images
       \/ /\ \E k \in 0..args.num_images : images' = k
          /\ pc' = "save"
          /\ UNCHANGED <<exitCode, out>>
    /\ UNCHANGED <<args, home, imageExists, output_dir, dirs, i, saved_paths,
                   output_path, files, saveCalls, clock, ret, op>>

SaveImageSwallowsError ==
    /\ pc = "save"
    /\ i < images
    /\ \E t \in clock..MaxClock :
         LET path == GenOutputPath(output_dir, args.output, args.num_images, i, t)
         IN  /\ clock' = t
             /\ saveCalls' = saveCalls + 1
             /\ \/ /\ files' = files \cup {path}
                   /\ saved_paths' = Append(saved_paths, path)
                \/ UNCHANGED <<files, saved_paths>>
             /\ i' = i + 1
             /\ UNCHANGED <<pc, exitCode, out>>
    /\ UNCHANGED <<args, home, imageExists, output_dir, dirs, images, output_path,
                   apiCalls, ret, op>>

(* one iteration of: for i, image in enumerate(images) *)
SaveImage ==
    /\ pc = "save"
    /\ i < images
    /\ \E t \in clock..MaxClock :
         LET path == GenOutputPath(output_dir, args.output, args.num_images, i, t)
         IN  /\ clock' = t
             /\ saveCalls' = saveCalls + 1
             /\ \/ \* image.save returns
                   /\ files' = files \cup {path}
                   /\ saved_paths' = Append(saved_paths, path)
                   /\ i' = i + 1
                   /\ UNCHANGED <<pc, exitCode, out>>
                \/ \* image.save raises
                   /\ Exit(1, {"ErrorGenerating"})
                   /\ UNCHANGED <<files, saved_paths, i>>
    /\ UNCHANGED <<args, home, imageExists, output_dir, dirs, images, output_path,
                   apiCalls, ret, op>>

(* after the loop: the success banner, the paths, then for one image
   _suggest_preview(saved_paths[0]), then return saved_paths *)
GenerateReport ==
    /\ pc = "save"
    /\ i = images
    /\ IF args.num_images = 1 /\ saved_paths = <<>>
       THEN \* saved_paths[0] raises IndexError after the banner was printed
            /\ Exit(1, {"Success", "ErrorGenerating"})
            /\ UNCHANGED ret
       ELSE /\ Exit(0, {"Success"})
            /\ ret' = [some |-> TRUE, paths |-> saved_paths]
    /\ UNCHANGED <<args, home, imageExists, output_dir, dirs, images, i, saved_paths,
                   output_path, files, apiCalls, saveCalls, clock, op>>

-----------------------------------------------------------------------------
(* edit_image *)

EditCheckNoExists ==
    /\ pc = "edit"
    /\ \E t \in clock..MaxClock :
            /\ clock' = t
            /\ output_path' = EditOutputPath(output_dir, args.output, t)
    /\ pc' = "edit_call"
    /\ UNCHANGED <<exitCode, out>>
    /\ UNCHANGED <<args, home, imageExists, output_dir, dirs, images, i, saved_paths,
                   files, apiCalls, saveCalls, ret, op>>

(* the existence check of the image and the choice of output_path *)
EditCheck ==
    /\ pc = "edit"
    /\ IF ~imageExists
       THEN /\ Exit(1, {"ImageNotFound"})
            /\ UNCHANGED <<clock, output_path>>
       ELSE /\ \E t \in clock..MaxClock :
                 /\ clock' = t
                 /\ output_path' = EditOutputPath(output_dir, args.output, t)
            /\ pc' = "edit_call"
            /\ UNCHANGED <<exitCode, out>>
    /\ UNCHANGED <<args, home, imageExists, output_dir, dirs, images, i, saved_paths,
                   files, apiCalls, saveCalls, ret, op>>

(* reading the image, then edited_images = the call of self.model.edit_image *)
EditCall ==
    /\ pc = "edit_call"
    /\ \/ \* open/read of the image or the construction of VertexImage raises
          /\ Exit(1, {"ErrorEditing"})
          /\ UNCHANGED <<images, apiCalls>>
       \/ \* the API call raises
          /\ apiCalls' = apiCalls + 1
          /\ Exit(1, {"ErrorEditing"})
          /\ UNCHANGED images
       \/ /\ apiCalls' = apiCalls + 1
          /\ \E k \in 0..1 : images' = k
          /\ pc' = "edit_save"
          /\ UNCHANGED <<exitCode, out>>
    /\ UNCHANGED <<args, home, imageExists, output_dir, dirs, i, saved_paths,
                   output_path, files, saveCalls, clock, ret, op>>

(* edited_images[0].save(...), the success message, return output_path *)
EditSave ==
    /\ pc = "edit_save"
    /\ IF images = 0
       THEN \* edited_images[0] raises IndexError
            /\ Exit(1, {"ErrorEditing"})
            /\ UNCHANGED <<files, saveCalls, ret>>
       ELSE /\ saveCalls' = saveCalls + 1
            /\ \/ /\ files' = files \cup {output_path}
                  /\ ret' = [some |-> TRUE, paths |-> <<output_path>>]
                  /\ Exit(0, {"Success"})
               \/ /\ Exit(1, {"ErrorEditing"})
                  /\ UNCHANGED <<files, ret>>
    /\ UNCHANGED <<args, home, imageExists, output_dir, dirs, images, i, saved_paths,
                   output_path, apiCalls, clock, op>>

-----------------------------------------------------------------------------

Next ==
    \/ LoadConfig
    \/ SetOutputDir
    \/ Dispatch
    \/ GenerateImages
    \/ SaveImage
    \/ GenerateReport
    \/ EditCheck
    \/ EditCall
    \/ EditSave

Spec == Init /\ [][Next]_vars

-----------------------------------------------------------------------------
(* Vocabulary of the properties *)

Done == pc = "done"

Range(s) == {s[j] : j \in 1..Len(s)}

AllWhitespace(s) == \A j \in 1..Len(s) : s[j] \in Whitespace

\* the project file is missing or holds nothing but whitespace
ConfigError == ~home.projectExists \/ AllWhitespace(home.project)

KeyError == home.key \in {"missing", "empty"}

OutputGiven == args.output.some /\ args.output.val # <<>>

NoDot(name) == \A j \in 1..Len(name) : name[j] # Dot

\* a dot that is neither the first nor the last character
HasExtension(name) == \E j \in 2..(Len(name) - 1) : name[j] = Dot

ExpectedName(name, default) == IF HasExtension(name) THEN name ELSE name \o default

ErrorReported == out \cap {"NoProject", "ProjectEmpty", "ImageNotFound",
                           "ErrorGenerating", "ErrorEditing", "Traceback"} # {}

ApiRaised == apiCalls > 0 /\ images = -1

SaveRaised == saveCalls > (IF op = "generate" THEN Len(saved_paths)
                           ELSE IF ret.some THEN 1 ELSE 0)

ReadRaised == op = "edit" /\ imageExists /\ apiCalls = 0

Blocked == images = 0

Usage == op = "none" /\ "Help" \in out

Fatal ==
    \/ ConfigError
    \/ "Traceback" \in out
    \/ Usage
    \/ op = "edit" /\ ~imageExists
    \/ ReadRaised
    \/ ApiRaised
    \/ SaveRaised
    \/ Blocked

-----------------------------------------------------------------------------
(* C1 as stated: every run makes at most one API call and at most one
   image.save call. *)
C1_AtMostOneCallOneWrite == apiCalls <= 1 /\ saveCalls <= 1

(* C1, amended: every run makes at most one API call; image.save is called at
   most num_images times in generate, and at most once in edit_image or when
   num_images is 1. *)
C1_OneCallBoundedWrites ==
    /\ apiCalls <= 1
    /\ saveCalls <= args.num_images
    /\ (op # "generate" \/ args.num_images = 1) => saveCalls <= 1

C1_Witness ==
    /\ Done /\ op = "generate" /\ exitCode = 0
    /\ args.num_images = MaxImages
    /\ apiCalls = 1 /\ saveCalls = MaxImages

-----------------------------------------------------------------------------
(* C2 as stated: a destination without extension is saved under the name with
   .png appended, in generate (one image, --output) and in edit_image. *)
C2_NoExtensionGetsPng ==
    (OutputGiven /\ NoDot(args.output.val)
        /\ (op = "edit" \/ (op = "generate" /\ args.num_images = 1)))
    => \A p \in files : p.name = args.output.val \o PngSuffix

(* C2, amended: a destination without extension gets a default extension
   appended: .png in edit_image, .jpg in generate with one image. *)
C2_NoExtensionGetsDefault ==
    (OutputGiven /\ NoDot(args.output.val))
    => /\ op = "edit" =>
            \A p \in files : p.name = args.output.val \o <<Dot, "png">>
       /\ (op = "generate" /\ args.num_images = 1) =>
            \A p \in files : p.name = args.output.val \o <<Dot, "jpg">>

C2_Witness ==
    /\ Done /\ op = "generate" /\ args.num_images = 1
    /\ args.output = OptSome(<<"out">>)
    /\ files = {[dir |-> output_dir, name |-> <<"out", Dot, "jpg">>]}

-----------------------------------------------------------------------------
(* C3: the exit code is zero exactly when the run ended without a fatal
   error (configuration, usage, input, upstream exception or blocked result,
   save failure). *)
C3_ExitZeroIffNoFatal == Done => (exitCode = 0 <=> ~Fatal)

-----------------------------------------------------------------------------
(* C4: a run whose API call returned zero images reports an error, prints no
   success message, returns no paths and exits nonzero. *)
C4_EmptyResultIsFatal ==
    (Done /\ Blocked)
    => /\ out \cap {"ErrorGenerating", "ErrorEditing"} # {}
       /\ "Success" \notin out
       /\ ~ret.some
       /\ exitCode # 0

-----------------------------------------------------------------------------
ExitsAtOnce ==
    /\ apiCalls = 0 /\ dirs = {} /\ files = {} /\ saveCalls = 0
    /\ pc \in {"init", "done"}
    /\ Done => (exitCode # 0 /\ ErrorReported)

(* C5 as stated: with the key file or the project file missing or empty the
   process reports the error and exits at once, nonzero, without an API call,
   a created directory or a written file. *)
C5_KeyOrProjectMissingExitsAtOnce == (KeyError \/ ConfigError) => ExitsAtOnce

(* C5, amended: with the project file missing or empty (nothing but
   whitespace) the process reports the error and exits at once, nonzero,
   without an API call, a created directory or a written file; the key file is
   never read. *)
C5_ProjectMissingExitsAtOnce == ConfigError => ExitsAtOnce

C5_Witness ==
    /\ Done /\ home.projectExists /\ home.project # <<>> /\ AllWhitespace(home.project)
    /\ exitCode = 1 /\ "ProjectEmpty" \in out

-----------------------------------------------------------------------------
(* C6: in edit mode with the image file missing, the run reports the error and
   exits nonzero with no call of model.edit_image and no file written. *)
C6_MissingImageExitsBeforeCall ==
    (op = "edit" /\ ~imageExists)
    => /\ apiCalls = 0 /\ saveCalls = 0 /\ files = {}
       /\ pc \in {"edit", "done"}
       /\ Done => (exitCode # 0 /\ "ImageNotFound" \in out)

C6_Witness == Done /\ op = "edit" /\ ~imageExists /\ exitCode = 1

-----------------------------------------------------------------------------
(* C7 as stated: a generate run that exits nonzero has saved no file, and one
   that exits zero has saved every image the API returned. *)
C7_FailureLeavesNoFile ==
    (Done /\ op = "generate")
    => /\ exitCode # 0 => files = {}
       /\ exitCode = 0 => Len(saved_paths) = images

(* C7, amended: a generate run that exits nonzero has saved no file when the
   API call failed or returned nothing, and keeps the files of the images
   saved before the failing image.save otherwise; one that exits zero has
   saved every image the API returned. *)
C7_FailureKeepsEarlierFiles ==
    (Done /\ op = "generate")
    => /\ (exitCode # 0 /\ saveCalls = 0) => files = {}
       /\ (exitCode # 0 /\ saveCalls > 0) =>
            /\ Len(saved_paths) = saveCalls - 1
            /\ files = Range(saved_paths)
            /\ Cardinality(files) = saveCalls - 1
       /\ exitCode = 0 =>
            /\ Len(saved_paths) = images
            /\ files = Range(saved_paths)
            /\ Cardinality(files) = images

C7_Witness ==
    /\ Done /\ op = "generate" /\ exitCode = 1
    /\ saveCalls = 3 /\ Cardinality(files) = 2

-----------------------------------------------------------------------------
IsGenTimestampPath(p, j) ==
    \E t \in 0..MaxClock :
        p = [dir |-> output_dir,
             name |-> <<"nano_", ToString(t)>>
                        \o (IF args.num_images > 1 THEN <<"_", ToString(j)>> ELSE <<>>)
                        \o <<Dot, "jpg">>]

IsEditTimestampPath(p) ==
    \E t \in 0..MaxClock :
        p = [dir |-> output_dir, name |-> <<"nano_edited_", ToString(t), Dot, "png">>]

EditNaming ==
    op = "edit" =>
        \A p \in files :
            IF OutputGiven
            THEN p = [dir |-> output_dir,
                      name |-> ExpectedName(args.output.val, <<Dot, "png">>)]
            ELSE IsEditTimestampPath(p)

(* C8 as stated: with --output every saved path is output_dir/FILENAME (plus a
   default suffix when it has none), for every num_images and in edit_image;
   without it the timestamp pattern is used. *)
C8_OutputNameAlwaysUsed ==
    /\ op = "generate" =>
        \A j \in 1..Len(saved_paths) :
            IF OutputGiven
            THEN saved_paths[j] = [dir |-> output_dir,
                                   name |-> ExpectedName(args.output.val, <<Dot, "jpg">>)]
            ELSE IsGenTimestampPath(saved_paths[j], j)
    /\ EditNaming

(* C8, amended: with a non-empty --output the saved path is
   output_dir/FILENAME (plus a default suffix when it has none) in edit_image
   and in generate with num_images = 1; in generate with num_images > 1 the
   filename is ignored and image i is saved as nano_<timestamp>_<i>.jpg, as
   without --output. *)
C8_OutputNameUsedForOneImage ==
    /\ op = "generate" =>
        \A j \in 1..Len(saved_paths) :
            IF OutputGiven /\ args.num_images = 1
            THEN saved_paths[j] = [dir |-> output_dir,
                                   name |-> ExpectedName(args.output.val, <<Dot, "jpg">>)]
            ELSE IsGenTimestampPath(saved_paths[j], j)
    /\ EditNaming

C8_Witness ==
    /\ Done /\ op = "generate" /\ exitCode = 0
    /\ OutputGiven /\ args.num_images = 3 /\ Len(saved_paths) = 3

-----------------------------------------------------------------------------
(* C9: in a generate run the saved paths are pairwise distinct, follow the
   order of the images, and number as many as the images saved so far (all the
   images returned, once the run exits zero): no save overwrites a file of the
   same run. *)
C9_SavedPathsDistinct ==
    op = "generate" =>
        /\ \A j, k \in 1..Len(saved_paths) : j # k => saved_paths[j] # saved_paths[k]
        /\ Len(saved_paths) = i
        /\ Cardinality(files) = Len(saved_paths)
        /\ files = Range(saved_paths)
        /\ args.num_images > 1 =>
                \A j \in 1..Len(saved_paths) : IsGenTimestampPath(saved_paths[j], j)
        /\ (Done /\ exitCode = 0) => Len(saved_paths) = images

C9_Witness ==
    /\ Done /\ op = "generate" /\ exitCode = 0
    /\ images = 3 /\ Len(saved_paths) = 3 /\ clock = 0

-----------------------------------------------------------------------------
Dispatched ==
    \/ pc \in {"generate", "save", "edit", "edit_call", "edit_save"}
    \/ Done /\ out \cap {"NoProject", "ProjectEmpty", "Traceback"} = {}

(* C10: once configuration has loaded, main runs one operation at most:
   generate when --prompt is non-empty (even with --edit), else edit_image when
   --edit is given, else it prints the help and exits with code 1 without an
   API call or a file write. *)
C10_Dispatch ==
    /\ op # "none" => ~ConfigError
    /\ op = "generate" => (pc \in {"generate", "save", "done"} /\ output_path = NoPath)
    /\ op = "edit" => (pc \in {"edit", "edit_call", "edit_save", "done"}
                        /\ saved_paths = <<>> /\ i = 0)
    /\ Dispatched =>
        IF args.prompt.some /\ args.prompt.val # ""
        THEN op = "generate"
        ELSE IF args.edit.some
             THEN op = "edit"
             ELSE /\ op = "none" /\ Done /\ exitCode = 1 /\ "Help" \in out
                  /\ apiCalls = 0 /\ saveCalls = 0 /\ files = {}

C10_Witness ==
    /\ Done /\ op = "generate" /\ args.edit.some /\ exitCode = 0 /\ apiCalls = 1

====
